---- MODULE Spec2Model ----
(***************************************************************************)
(* Identity resolution, bounded per-identity history and history-based     *)
(* confidence adjustment of FaceHandlerV2 (src/core/face_handler_v2.py).   *)
(*                                                                         *)
(* Units.  A face descriptor is a pair of integers in tenths, so that the  *)
(* Euclidean distance d satisfies  d < 0.4  iff  SqDist < 4*4.             *)
(* A confidence is an integer number of hundredths of a percent            *)
(* (5500 = 55.0 %), an adjustment factor an integer number of hundredths   *)
(* (15 = +0.15), so confidence * (1 + factor) is the integer               *)
(* (confidence * (100 + factor)) \div 100 with no rounding for the inputs  *)
(* used here (whole percents).  Time is counted in days.                   *)
(***************************************************************************)
EXTENDS Integers, Sequences, FiniteSets, TLC

VARIABLES
    known_faces,       \* self.known_faces: the dict in insertion order, a sequence of face records
    analysis_history,  \* self.analysis_history: face id -> sequence of history entries
    next_face_id,      \* self.next_face_id
    faces_file,        \* data/face_tracking/known_faces.pkl: Missing or what was written
    history_file,      \* data/face_tracking/analysis_history.json: Missing or what was written
    clock,             \* the wall clock, in days
    appended,          \* history: face id -> every entry appended to the list now held for it
    allocated,         \* history: the ids handed out to new identities so far
    reused,            \* history: TRUE once an id was handed out a second time
    ret,               \* the last call and what it returned
    pc,                \* per thread: the position inside its current call
    loc,               \* per thread: the locals of its current call
    face_recognition_available,  \* self.face_recognition_available, set by __init__
    current_face_id,   \* RetinoblastoGemmaV6.current_face_id (src/main.py)
    processing,        \* RetinoblastoGemmaV6.processing (src/main.py)
    asking,            \* the "Start Analysis" dialog of analyze_image is open
    analysis_sessions  \* analysis_sessions of src/api_server.py: session id -> status

(* the flags of the window and the sessions of the server *)
front == <<processing, asking, analysis_sessions>>

(* the state of the application around the handler *)
app == <<face_recognition_available, current_face_id, front>>

vars == <<known_faces, analysis_history, next_face_id, faces_file, history_file,
          clock, appended, allocated, reused, ret, pc, loc, app>>

----------------------------------------------------------------------------
(* Bounds of the model *)

MaxFaces == 2
MaxSeen == 2
MaxRecords == 1
MaxHistRecords == 12
MaxGiven == 5

(* Program constants *)

similarity_threshold == 6
max_history_per_face == 10
WindowDays == 30

----------------------------------------------------------------------------
(* Values *)

Descriptors == {<<0, 0>>, <<3, 0>>, <<4, 0>>, <<4, 3>>}

ChildId(n) == <<"child", n>>

NoCall == [op |-> "none"]

(* current_face_id = None *)
NoFace == <<"none", 0>>

(* a file that does not exist *)
Missing == [state |-> "missing"]

Min(a, b) == IF a < b THEN a ELSE b
Max(a, b) == IF a > b THEN a ELSE b
Abs(a) == IF a < 0 THEN -a ELSE a

SqDist(a, b) == (a[1] - b[1]) * (a[1] - b[1]) + (a[2] - b[2]) * (a[2] - b[2])

(* distance < 1 - similarity_threshold, both sides squared *)
WithinThreshold(sq) == sq < (10 - similarity_threshold) * (10 - similarity_threshold)

FaceIds(kf) == {kf[i].id : i \in 1..Len(kf)}

FaceIndex(kf, id) == CHOOSE i \in 1..Len(kf) : kf[i].id = id

(* The scan of _find_or_create_face: the index of the first prototype at the
   minimum distance (distance < best_distance keeps the earlier of two equal
   ones), 0 for an empty dict. *)
RECURSIVE BestFrom(_, _, _, _)
BestFrom(kf, enc, i, best) ==
    IF i > Len(kf) THEN best
    ELSE IF best = 0 \/ SqDist(enc, kf[i].encoding) < SqDist(enc, kf[best].encoding)
         THEN BestFrom(kf, enc, i + 1, i)
         ELSE BestFrom(kf, enc, i + 1, best)

(* the first prototype of the dict, whatever its distance *)
BestMatchFirst(kf, enc) == IF Len(kf) = 0 THEN 0 ELSE 1

BestMatch(kf, enc) == BestFrom(kf, enc, 1, 0)

(* a match only below distance 0.3 *)
IsMatchNearer(kf, enc) ==
    /\ BestMatch(kf, enc) # 0
    /\ SqDist(enc, kf[BestMatch(kf, enc)].encoding) < 9

IsMatch(kf, enc) ==
    /\ BestMatch(kf, enc) # 0
    /\ WithinThreshold(SqDist(enc, kf[BestMatch(kf, enc)].encoding))

NewFace(id, enc, now) ==
    [id |-> id, encoding |-> enc, first_seen |-> now, last_seen |-> now, seen_count |-> 1]

(* self.known_faces[face_id] = {...}: a new key goes last, an existing key
   keeps its place *)
PutFace(kf, face) ==
    IF face.id \in FaceIds(kf)
    THEN [kf EXCEPT ![FaceIndex(kf, face.id)] = face]
    ELSE Append(kf, face)

PutKey(h, id, v) == [x \in DOMAIN h \cup {id} |-> IF x = id THEN v ELSE h[x]]

----------------------------------------------------------------------------
(* add_analysis_result *)

PositiveDetections(results) ==
    Cardinality({i \in 1..Len(results) : results[i].leukocoria_detected})

(* datetime.now().isoformat() is a string: <<"iso", day>>.  A number read
   from a history file is <<"num", day>>. *)
HistoryEntry(results, regions, image, now) ==
    [timestamp |-> <<"iso", now>>,
     image_path |-> image,
     has_positive_findings |-> \E i \in 1..Len(results) : results[i].leukocoria_detected,
     regions_analyzed |-> regions,
     positive_detections |-> PositiveDetections(results)]

LastN(s, n) == IF Len(s) > n THEN SubSeq(s, Len(s) - n + 1, Len(s)) ELSE s

(* the newest entries dropped in place of the oldest *)
TruncateNewest(h) ==
    IF Len(h) > max_history_per_face THEN SubSeq(h, 1, max_history_per_face) ELSE h

(* the slice applied one entry too late *)
TruncateLate(h) ==
    IF Len(h) > max_history_per_face + 1 THEN LastN(h, max_history_per_face) ELSE h

Truncate(h) == IF Len(h) > max_history_per_face THEN LastN(h, max_history_per_face) ELSE h

AddAnalysisResult(hist, id, entry) ==
    LET h0 == IF id \in DOMAIN hist THEN hist ELSE PutKey(hist, id, <<>>)
    IN  PutKey(h0, id, Truncate(Append(h0[id], entry)))

----------------------------------------------------------------------------
(* _find_or_create_face, run without interruption *)

(* a match that also replaces the stored encoding by the one just seen *)
FindOrCreateRelearning(kf, hist, nid, enc, now) ==
    IF IsMatch(kf, enc)
    THEN LET b == BestMatch(kf, enc)
         IN  [kf |-> [kf EXCEPT ![b].last_seen = now, ![b].seen_count = @ + 1,
                                ![b].encoding = enc],
              hist |-> hist, nid |-> nid, face_id |-> kf[b].id, is_new |-> FALSE]
    ELSE [kf |-> PutFace(kf, NewFace(ChildId(nid), enc, now)),
          hist |-> PutKey(hist, ChildId(nid), <<>>),
          nid |-> nid + 1, face_id |-> ChildId(nid), is_new |-> TRUE]

FindOrCreate(kf, hist, nid, enc, now) ==
    IF IsMatch(kf, enc)
    THEN LET b == BestMatch(kf, enc)
         IN  [kf |-> [kf EXCEPT ![b].last_seen = now, ![b].seen_count = @ + 1],
              hist |-> hist, nid |-> nid, face_id |-> kf[b].id, is_new |-> FALSE]
    ELSE [kf |-> PutFace(kf, NewFace(ChildId(nid), enc, now)),
          hist |-> PutKey(hist, ChildId(nid), <<>>),
          nid |-> nid + 1, face_id |-> ChildId(nid), is_new |-> TRUE]

----------------------------------------------------------------------------
(* adjust_confidence_with_history *)

Unadjusted(f) ==
    [leukocoria_detected |-> f.leukocoria_detected,
     confidence |-> f.confidence,
     risk_level |-> f.risk_level,
     urgency |-> f.urgency,
     confidence_adjusted |-> FALSE,
     original_confidence |-> f.confidence,
     adjustment_factor |-> 0,
     adjustment_reasoning |-> <<>>,
     detection_changed_by_history |-> FALSE,
     recommendation_note |-> "none",
     medical_reasoning |-> "none",
     history_note |-> FALSE]

(* entry.get('timestamp', 0) > recent_cutoff with a str timestamp *)
RaisesTypeError(history) == \E i \in 1..Len(history) : history[i].timestamp[1] = "iso"

(* no cutoff: every entry counts as recent *)
IsRecentAlways(e, now) == TRUE

IsRecent(e, now) == e.timestamp[2] > now - WindowDays

RecentAnalyses(history, now) == SelectSeq(history, LAMBDA e : IsRecent(e, now))

CountPositive(entries) ==
    Cardinality({i \in 1..Len(entries) : entries[i].positive_detections > 0})

(* historical_confidences: 50 or 20 for each entry with regions_analyzed > 0 *)
ConfidenceCount(entries) ==
    Cardinality({i \in 1..Len(entries) : entries[i].regions_analyzed > 0})

ConfidenceSum(entries) ==
    50 * Cardinality({i \in 1..Len(entries) :
                        entries[i].regions_analyzed > 0 /\ entries[i].positive_detections > 0})
    + 20 * Cardinality({i \in 1..Len(entries) :
                        entries[i].regions_analyzed > 0 /\ entries[i].positive_detections = 0})

(* avg_historical_confidence as the fraction num / den, 50 when the list is empty *)
AvgHistorical(entries) ==
    IF ConfidenceCount(entries) > 0
    THEN [num |-> ConfidenceSum(entries), den |-> ConfidenceCount(entries)]
    ELSE [num |-> 50, den |-> 1]

(* rules 1 and 3 as two separate if statements, rule 3 without the test of
   the detection *)
HistoryRuleStacked(recent, detected, conf) ==
    LET p == CountPositive(recent)
        n == Len(recent)
        one == IF 10 * p > 3 * n /\ detected
               THEN [af |-> 15, why |-> <<"consistent_with_positive_history">>]
               ELSE [af |-> 0, why |-> <<>>]
        three == IF 2 * p > n
                 THEN [af |-> 20, why |-> <<"possible_false_negative">>]
                 ELSE [af |-> 0, why |-> <<>>]
    IN  [af |-> one.af + three.af, why |-> one.why \o three.why]

(* rules 1 to 3: one if / elif / elif chain *)
HistoryRule(recent, detected, conf) ==
    LET p == CountPositive(recent)
        n == Len(recent)
    IN  IF 10 * p > 3 * n /\ detected
        THEN [af |-> 15, why |-> <<"consistent_with_positive_history">>]
        ELSE IF 10 * p < 2 * n /\ detected /\ conf > 6000
        THEN [af |-> 10, why |-> <<"new_concerning_finding">>]
        ELSE IF 2 * p > n /\ ~detected
        THEN IF conf < 4000
             THEN [af |-> 20, why |-> <<"possible_false_negative">>]
             ELSE [af |-> 5, why |-> <<"positive_history_warrants_caution">>]
        ELSE [af |-> 0, why |-> <<>>]

(* rule 4 with >= 30 in place of > 30 *)
StabilityRuleInclusive(recent, conf) ==
    LET avg == AvgHistorical(recent)
    IN  IF Abs(conf * avg.den - 100 * avg.num) >= 3000 * avg.den
        THEN IF conf * avg.den > 100 * avg.num
             THEN [af |-> 5, why |-> <<"higher_than_historical_average">>]
             ELSE [af |-> -5, why |-> <<"lower_than_historical_average">>]
        ELSE [af |-> 0, why |-> <<>>]

(* rule 4: |confidence - avg| > 30, confidence in hundredths of a percent *)
StabilityRule(recent, conf) ==
    LET avg == AvgHistorical(recent)
    IN  IF Abs(conf * avg.den - 100 * avg.num) > 3000 * avg.den
        THEN IF conf * avg.den > 100 * avg.num
             THEN [af |-> 5, why |-> <<"higher_than_historical_average">>]
             ELSE [af |-> -5, why |-> <<"lower_than_historical_average">>]
        ELSE [af |-> 0, why |-> <<>>]

(* rule 5: the last three recent entries *)
TrendRule(recent, detected) ==
    IF Len(recent) >= 3
    THEN IF CountPositive(LastN(recent, 3)) >= 2 /\ detected
         THEN [af |-> 10, why |-> <<"consistent_with_recent_trend">>]
         ELSE IF CountPositive(LastN(recent, 3)) >= 2 /\ ~detected
         THEN [af |-> 15, why |-> <<"inconsistent_with_recent_trend">>]
         ELSE [af |-> 0, why |-> <<>>]
    ELSE [af |-> 0, why |-> <<>>]

AdjustmentFactor(recent, detected, conf) ==
    HistoryRule(recent, detected, conf).af + StabilityRule(recent, conf).af
    + TrendRule(recent, detected).af

Reasoning(recent, detected, conf) ==
    HistoryRule(recent, detected, conf).why \o StabilityRule(recent, conf).why
    \o TrendRule(recent, detected).why

(* the product left unbounded *)
NewConfidenceUnclamped(conf, af) == (conf * (100 + af)) \div 100

(* max(0, min(100, original_confidence * (1 + adjustment_factor))) *)
NewConfidence(conf, af) == Max(0, Min(10000, (conf * (100 + af)) \div 100))

(* the thresholds 85 and 65 taken as strict *)
ReevaluateRiskStrict(r) ==
    LET c == r.confidence
        adj == r.confidence_adjusted
        noted == [r EXCEPT !.history_note = adj]
    IN  IF r.leukocoria_detected
        THEN IF c > 8500 \/ (c >= 7500 /\ adj)
             THEN [noted EXCEPT !.risk_level = "high", !.urgency = "immediate",
                                !.medical_reasoning = "high_with_history"]
             ELSE IF c > 6500 \/ (c >= 5500 /\ adj)
             THEN [noted EXCEPT !.risk_level = "medium", !.urgency = "urgent",
                                !.medical_reasoning = "moderate_with_history"]
             ELSE IF c >= 4500
             THEN [noted EXCEPT !.risk_level = "medium", !.urgency = "soon"]
             ELSE [noted EXCEPT !.risk_level = "low", !.urgency = "routine"]
        ELSE IF adj /\ c > 3000
             THEN [noted EXCEPT !.risk_level = "low", !.urgency = "soon",
                                !.recommendation_note = "close_monitoring"]
             ELSE IF adj /\ r.adjustment_factor > 10
             THEN [noted EXCEPT !.urgency = "soon",
                                !.recommendation_note = "enhanced_monitoring"]
             ELSE noted

(* _reevaluate_risk_level_with_history on a result whose confidence_adjusted is set *)
ReevaluateRisk(r) ==
    LET c == r.confidence
        adj == r.confidence_adjusted
        noted == [r EXCEPT !.history_note = adj]
    IN  IF r.leukocoria_detected
        THEN IF c >= 8500 \/ (c >= 7500 /\ adj)
             THEN [noted EXCEPT !.risk_level = "high", !.urgency = "immediate",
                                !.medical_reasoning = "high_with_history"]
             ELSE IF c >= 6500 \/ (c >= 5500 /\ adj)
             THEN [noted EXCEPT !.risk_level = "medium", !.urgency = "urgent",
                                !.medical_reasoning = "moderate_with_history"]
             ELSE IF c >= 4500
             THEN [noted EXCEPT !.risk_level = "medium", !.urgency = "soon"]
             ELSE [noted EXCEPT !.risk_level = "low", !.urgency = "routine"]
        ELSE IF adj /\ c > 3000
             THEN [noted EXCEPT !.risk_level = "low", !.urgency = "soon",
                                !.recommendation_note = "close_monitoring"]
             ELSE IF adj /\ r.adjustment_factor > 10
             THEN [noted EXCEPT !.urgency = "soon",
                                !.recommendation_note = "enhanced_monitoring"]
             ELSE noted

(* the detection changed on the factor alone, whatever the new confidence *)
AdjustOneFlipAny(recent, f) ==
    LET af == AdjustmentFactor(recent, f.leukocoria_detected, f.confidence)
        why == Reasoning(recent, f.leukocoria_detected, f.confidence)
        nc == NewConfidence(f.confidence, af)
        base == [Unadjusted(f) EXCEPT !.confidence = nc,
                                      !.confidence_adjusted = TRUE,
                                      !.adjustment_factor = af,
                                      !.adjustment_reasoning = why]
        risk == IF Abs(nc - f.confidence) > 1000 THEN ReevaluateRisk(base) ELSE base
    IN  IF af = 0 THEN Unadjusted(f)
        ELSE IF ~f.leukocoria_detected /\ af > 10
        THEN [risk EXCEPT !.leukocoria_detected = TRUE,
                          !.detection_changed_by_history = TRUE,
                          !.adjustment_reasoning = Append(@, "detection_changed")]
        ELSE risk

AdjustOne(recent, f) ==
    LET af == AdjustmentFactor(recent, f.leukocoria_detected, f.confidence)
        why == Reasoning(recent, f.leukocoria_detected, f.confidence)
        nc == NewConfidence(f.confidence, af)
        base == [Unadjusted(f) EXCEPT !.confidence = nc,
                                      !.confidence_adjusted = TRUE,
                                      !.adjustment_factor = af,
                                      !.adjustment_reasoning = why]
        risk == IF Abs(nc - f.confidence) > 1000 THEN ReevaluateRisk(base) ELSE base
    IN  IF af = 0 THEN Unadjusted(f)
        ELSE IF ~f.leukocoria_detected /\ nc > 5000 /\ af > 10
        THEN [risk EXCEPT !.leukocoria_detected = TRUE,
                          !.detection_changed_by_history = TRUE,
                          !.adjustment_reasoning = Append(@, "detection_changed")]
        ELSE risk

(* the whole call: the early returns, the except branch, then the loop *)
AdjustConfidenceWithHistory(hist, id, results, now) ==
    LET unchanged == [i \in 1..Len(results) |-> Unadjusted(results[i])]
    IN  IF id \notin DOMAIN hist THEN unchanged
        ELSE IF Len(hist[id]) < 2 THEN unchanged
        ELSE IF RaisesTypeError(hist[id]) THEN unchanged
        ELSE IF Len(RecentAnalyses(hist[id], now)) = 0 THEN unchanged
        ELSE [i \in 1..Len(results) |-> AdjustOne(RecentAnalyses(hist[id], now), results[i])]

----------------------------------------------------------------------------
(* Inputs *)

Finding(detected, conf, risk, urgency) ==
    [leukocoria_detected |-> detected, confidence |-> conf,
     risk_level |-> risk, urgency |-> urgency]

Negative20 == Finding(FALSE, 2000, "low", "routine")
Negative25 == Finding(FALSE, 2500, "low", "routine")
Positive55 == Finding(TRUE, 5500, "medium", "soon")

Negative39 == Finding(FALSE, 3900, "low", "routine")
Negative45 == Finding(FALSE, 4500, "low", "routine")
Positive10 == Finding(TRUE, 1000, "low", "routine")
Positive70 == Finding(TRUE, 7000, "medium", "urgent")
Positive100 == Finding(TRUE, 10000, "high", "immediate")

(* the result lists handed to add_analysis_result *)
StoreResults == {<<Positive55>>}
HistResults == {<<Negative20>>, <<Positive55>>}
AdjResults == {<<>>, <<Negative20>>, <<Positive55>>}

(* the findings handed to adjust_confidence_with_history *)
AdjFindings == {Negative20, Negative25, Negative39, Negative45,
                Positive10, Positive55, Positive70, Positive100}

(* one patient photographed again and again *)
HistDescriptors == {<<0, 0>>, <<3, 0>>}

Threads == {1, 2}

Idle == [t \in Threads |-> "idle"]
NoLocals == [t \in Threads |-> NoCall]

----------------------------------------------------------------------------
(* The store, one call at a time *)

Init ==
    /\ known_faces = <<>>
    /\ analysis_history = <<>>
    /\ next_face_id = 1
    /\ faces_file = Missing
    /\ history_file = Missing
    /\ clock = 0
    /\ appended = <<>>
    /\ allocated = {}
    /\ reused = FALSE
    /\ ret = NoCall
    /\ pc = Idle
    /\ loc = NoLocals
    /\ face_recognition_available = TRUE
    /\ current_face_id = NoFace
    /\ processing = FALSE
    /\ asking = FALSE
    /\ analysis_sessions = <<>>

(* what the previous call returned, kept when it was a resolve too *)
PriorResolve ==
    IF ret.op = "resolve"
    THEN [op |-> "resolve", arg |-> ret.arg, face_id |-> ret.face_id, is_new |-> ret.is_new]
    ELSE NoCall

Resolve(enc) ==
    LET r == FindOrCreate(known_faces, analysis_history, next_face_id, enc, clock)
    IN  /\ known_faces' = r.kf
        /\ analysis_history' = r.hist
        /\ next_face_id' = r.nid
        /\ appended' = IF r.is_new THEN PutKey(appended, r.face_id, <<>>) ELSE appended
        /\ allocated' = IF r.is_new THEN allocated \cup {r.face_id} ELSE allocated
        /\ reused' = (reused \/ (r.is_new /\ r.face_id \in allocated))
        /\ ret' = [op |-> "resolve", arg |-> enc, face_id |-> r.face_id,
                   is_new |-> r.is_new, prior |-> PriorResolve]
        /\ UNCHANGED <<faces_file, history_file, clock, pc, loc, app>>

Record(id, results, regions, image) ==
    LET e == HistoryEntry(results, regions, image, clock)
    IN  /\ analysis_history' = AddAnalysisResult(analysis_history, id, e)
        /\ appended' = PutKey(appended, id,
                              Append(IF id \in DOMAIN analysis_history THEN appended[id]
                                     ELSE <<>>, e))
        /\ ret' = [op |-> "record", face_id |-> id]
        /\ UNCHANGED <<known_faces, next_face_id, faces_file, history_file, clock,
                       allocated, reused, pc, loc, app>>

Adjust(id, results) ==
    /\ ret' = [op |-> "adjust", face_id |-> id, input |-> results,
               output |-> AdjustConfidenceWithHistory(analysis_history, id, results, clock)]
    /\ UNCHANGED <<known_faces, analysis_history, next_face_id, faces_file, history_file,
                   clock, appended, allocated, reused, pc, loc, app>>

(* _save_data: both files written *)
Save ==
    /\ faces_file' = [state |-> "written", known_faces |-> known_faces,
                      next_face_id |-> next_face_id]
    /\ history_file' = [state |-> "written", analysis_history |-> analysis_history]
    /\ ret' = [op |-> "save"]
    /\ UNCHANGED <<known_faces, analysis_history, next_face_id, clock, appended,
                   allocated, reused, pc, loc, app>>

(* a file whose write stopped part-way: it exists and cannot be parsed *)
Corrupt == [state |-> "corrupt"]

(* _load_data: one try block around both files; pickle.load or json.load
   raising on a file that cannot be parsed sends it to the except branch,
   which empties all three *)
LoadData(ff, hf) ==
    IF ff.state = "corrupt" \/ hf.state = "corrupt"
    THEN [kf |-> <<>>, hist |-> <<>>, nid |-> 1]
    ELSE [kf |-> IF ff.state = "missing" THEN <<>> ELSE ff.known_faces,
          nid |-> IF ff.state = "missing" THEN 1 ELSE ff.next_face_id,
          hist |-> IF hf.state = "missing" THEN <<>> ELSE hf.analysis_history]

(* a new process: __init__, then _load_data *)
Restart ==
    /\ known_faces' = LoadData(faces_file, history_file).kf
    /\ next_face_id' = LoadData(faces_file, history_file).nid
    /\ analysis_history' = LoadData(faces_file, history_file).hist
    /\ appended' = analysis_history'
    /\ current_face_id' = NoFace
    /\ ret' = [op |-> "restart"]
    /\ UNCHANGED <<faces_file, history_file, clock, allocated, reused, pc, loc,
                   face_recognition_available, front>>

(* a reset that does not look at confirm *)
ResetAlways(confirm) ==
    /\ known_faces' = <<>>
    /\ analysis_history' = <<>>
    /\ next_face_id' = 1
    /\ faces_file' = Missing
    /\ history_file' = Missing
    /\ appended' = <<>>
    /\ ret' = [op |-> "reset", confirm |-> confirm, result |-> TRUE]
    /\ UNCHANGED <<clock, allocated, reused, pc, loc, app>>

(* reset_all_data *)
Reset(confirm) ==
    /\ IF confirm
       THEN /\ known_faces' = <<>>
            /\ analysis_history' = <<>>
            /\ next_face_id' = 1
            /\ faces_file' = Missing
            /\ history_file' = Missing
            /\ appended' = <<>>
       ELSE UNCHANGED <<known_faces, analysis_history, next_face_id, faces_file,
                        history_file, appended>>
    /\ ret' = [op |-> "reset", confirm |-> confirm, result |-> confirm]
    /\ UNCHANGED <<clock, allocated, reused, pc, loc, app>>

(* the guards that keep the counters of a scenario finite *)
ResolveBounded(enc) ==
    /\ IF IsMatch(known_faces, enc)
       THEN known_faces[BestMatch(known_faces, enc)].seen_count < MaxSeen
       ELSE next_face_id <= MaxFaces
    /\ Resolve(enc)

RecordBounded(id, results, bound) ==
    /\ Len(appended[id]) < bound
    /\ Record(id, results, Len(results), "photo")

Next ==
    \/ \E enc \in Descriptors : ResolveBounded(enc)
    \/ \E id \in DOMAIN analysis_history, results \in StoreResults :
          RecordBounded(id, results, MaxRecords)
    \/ Save
    \/ Restart
    \/ \E confirm \in BOOLEAN : Reset(confirm)

Spec == Init /\ [][Next]_vars

----------------------------------------------------------------------------
(* One patient, a long series of analyses *)

NextHist ==
    \/ \E enc \in HistDescriptors : ResolveBounded(enc)
    \/ \E id \in DOMAIN analysis_history, results \in HistResults :
          RecordBounded(id, results, MaxHistRecords)

SpecHist == Init /\ [][NextHist]_vars

----------------------------------------------------------------------------
(* adjust_confidence_with_history on every history *)

(* history entries whose timestamp is a number of days: exactly WindowDays
   old (outside the window) or one day old *)
GivenEntries ==
    {[timestamp |-> <<"num", t>>, image_path |-> "photo",
      has_positive_findings |-> k[2] > 0,
      regions_analyzed |-> k[1], positive_detections |-> k[2]] :
        t \in {0 - WindowDays, 0 - 1}, k \in {<<0, 0>>, <<1, 0>>, <<1, 1>>}}

(* appended in time order *)
GivenHistories ==
    UNION {{h \in [1..n -> GivenEntries] :
               \A i \in 1..(n - 1) : h[i].timestamp[2] <= h[i + 1].timestamp[2]} :
           n \in 0..MaxGiven}

InitAdj ==
    /\ known_faces = <<NewFace(ChildId(1), <<0, 0>>, 0)>>
    /\ analysis_history \in {[id \in {ChildId(1)} |-> h] : h \in GivenHistories}
    /\ next_face_id = 2
    /\ faces_file = Missing
    /\ history_file = Missing
    /\ clock = 0
    /\ appended = analysis_history
    /\ allocated = {ChildId(1)}
    /\ reused = FALSE
    /\ ret = NoCall
    /\ pc = Idle
    /\ loc = NoLocals
    /\ face_recognition_available = TRUE
    /\ current_face_id = NoFace
    /\ processing = FALSE
    /\ asking = FALSE
    /\ analysis_sessions = <<>>

NextAdj ==
    \/ \E id \in DOMAIN analysis_history, results \in AdjResults :
          RecordBounded(id, results, MaxGiven)
    \/ \E id \in DOMAIN analysis_history, f \in AdjFindings : Adjust(id, <<f>>)

SpecAdj == InitAdj /\ [][NextAdj]_vars

----------------------------------------------------------------------------
(* Two threads on one FaceHandlerV2, one call each, one step per read or
   write of the shared dictionaries and counter *)

(* the stores the threads start from: empty, or one identity whose history
   holds 0, max_history_per_face - 1 or max_history_per_face entries *)
EarlierEntries(k) == [i \in 1..k |-> HistoryEntry(<<Positive55>>, 1, "photo", 0)]

InitConc ==
    /\ \E known \in BOOLEAN, k \in {0, max_history_per_face - 1, max_history_per_face} :
          /\ known_faces = IF known THEN <<NewFace(ChildId(1), <<0, 0>>, 0)>> ELSE <<>>
          /\ analysis_history = IF known THEN [id \in {ChildId(1)} |-> EarlierEntries(k)]
                                ELSE <<>>
          /\ next_face_id = IF known THEN 2 ELSE 1
          /\ allocated = IF known THEN {ChildId(1)} ELSE {}
          /\ ~known => k = 0
    /\ appended = analysis_history
    /\ faces_file = Missing
    /\ history_file = Missing
    /\ clock = 0
    /\ reused = FALSE
    /\ ret = NoCall
    /\ pc = Idle
    /\ loc = NoLocals
    /\ face_recognition_available = TRUE
    /\ current_face_id = NoFace
    /\ processing = FALSE
    /\ asking = FALSE
    /\ analysis_sessions = <<>>

Shared == <<faces_file, history_file, clock, ret, app>>

Goto(t, label, locals) ==
    /\ pc' = [pc EXCEPT ![t] = label]
    /\ loc' = [loc EXCEPT ![t] = locals]

(* a thread between the lookup of a history list and its append holds a
   reference to the list object; once the dictionary entry is rebound to a
   new list that reference is to the old one *)
Rebind(t, id, locals) ==
    [u \in Threads |->
        IF u = t THEN locals
        ELSE IF pc[u] = "append" /\ loc[u].face_id = id
             THEN [loc[u] EXCEPT !.stale = TRUE]
             ELSE loc[u]]

(* _find_or_create_face *)

StartResolve(t, enc) ==
    /\ pc[t] = "idle"
    /\ Goto(t, "scan", [op |-> "resolve", enc |-> enc, size |-> Len(known_faces)])
    /\ UNCHANGED <<known_faces, analysis_history, next_face_id, appended, allocated,
                   reused, Shared>>

(* the for loop over self.known_faces.items(): RuntimeError when the dict
   changed size since the iterator was made, else the nearest prototype *)
Scan(t) ==
    /\ pc[t] = "scan"
    /\ IF Len(known_faces) # loc[t].size
       THEN Goto(t, "done", [op |-> "resolve", enc |-> loc[t].enc,
                             face_id |-> <<"fallback", clock>>, is_new |-> TRUE])
       ELSE IF IsMatch(known_faces, loc[t].enc)
       THEN Goto(t, "last_seen",
                 [op |-> "resolve", enc |-> loc[t].enc,
                  face_id |-> known_faces[BestMatch(known_faces, loc[t].enc)].id])
       ELSE Goto(t, "read_id", [op |-> "resolve", enc |-> loc[t].enc])
    /\ UNCHANGED <<known_faces, analysis_history, next_face_id, appended, allocated,
                   reused, Shared>>

SetLastSeen(t) ==
    /\ pc[t] = "last_seen"
    /\ known_faces' = [known_faces EXCEPT
                          ![FaceIndex(known_faces, loc[t].face_id)].last_seen = clock]
    /\ Goto(t, "seen_read", loc[t])
    /\ UNCHANGED <<analysis_history, next_face_id, appended, allocated, reused, Shared>>

SeenRead(t) ==
    /\ pc[t] = "seen_read"
    /\ Goto(t, "seen_write",
            [op |-> "resolve", enc |-> loc[t].enc, face_id |-> loc[t].face_id,
             seen |-> known_faces[FaceIndex(known_faces, loc[t].face_id)].seen_count])
    /\ UNCHANGED <<known_faces, analysis_history, next_face_id, appended, allocated,
                   reused, Shared>>

SeenWrite(t) ==
    /\ pc[t] = "seen_write"
    /\ known_faces' = [known_faces EXCEPT
                          ![FaceIndex(known_faces, loc[t].face_id)].seen_count =
                              loc[t].seen + 1]
    /\ Goto(t, "done", [op |-> "resolve", enc |-> loc[t].enc,
                        face_id |-> loc[t].face_id, is_new |-> FALSE])
    /\ UNCHANGED <<analysis_history, next_face_id, appended, allocated, reused, Shared>>

(* face_id = f"child_{self.next_face_id:04d}" *)
ReadId(t) ==
    /\ pc[t] = "read_id"
    /\ Goto(t, "inc_read", [op |-> "resolve", enc |-> loc[t].enc,
                            face_id |-> ChildId(next_face_id)])
    /\ allocated' = allocated \cup {ChildId(next_face_id)}
    /\ reused' = (reused \/ ChildId(next_face_id) \in allocated)
    /\ UNCHANGED <<known_faces, analysis_history, next_face_id, appended, Shared>>

(* self.next_face_id += 1: the read, then the write *)
IncRead(t) ==
    /\ pc[t] = "inc_read"
    /\ Goto(t, "inc_write", [op |-> "resolve", enc |-> loc[t].enc,
                             face_id |-> loc[t].face_id, counter |-> next_face_id])
    /\ UNCHANGED <<known_faces, analysis_history, next_face_id, appended, allocated,
                   reused, Shared>>

IncWrite(t) ==
    /\ pc[t] = "inc_write"
    /\ next_face_id' = loc[t].counter + 1
    /\ Goto(t, "put_face", [op |-> "resolve", enc |-> loc[t].enc,
                            face_id |-> loc[t].face_id])
    /\ UNCHANGED <<known_faces, analysis_history, appended, allocated, reused, Shared>>

StoreFace(t) ==
    /\ pc[t] = "put_face"
    /\ known_faces' = PutFace(known_faces, NewFace(loc[t].face_id, loc[t].enc, clock))
    /\ Goto(t, "put_history", loc[t])
    /\ UNCHANGED <<analysis_history, next_face_id, appended, allocated, reused, Shared>>

(* self.analysis_history[face_id] = [] *)
StoreHistory(t) ==
    /\ pc[t] = "put_history"
    /\ analysis_history' = PutKey(analysis_history, loc[t].face_id, <<>>)
    /\ appended' = PutKey(appended, loc[t].face_id, <<>>)
    /\ pc' = [pc EXCEPT ![t] = "done"]
    /\ loc' = Rebind(t, loc[t].face_id,
                     [op |-> "resolve", enc |-> loc[t].enc,
                      face_id |-> loc[t].face_id, is_new |-> TRUE])
    /\ UNCHANGED <<known_faces, next_face_id, allocated, reused, Shared>>

(* add_analysis_result, for an id that _find_or_create_face returned: one
   with a history, or the fallback id of its except branch, which has none *)

StartAdd(t, id, results) ==
    /\ pc[t] = "idle"
    /\ Goto(t, "check", [op |-> "add", face_id |-> id,
                         entry |-> HistoryEntry(results, Len(results), t, clock)])
    /\ UNCHANGED <<known_faces, analysis_history, next_face_id, appended, allocated,
                   reused, Shared>>

(* if face_id not in self.analysis_history *)
CheckKey(t) ==
    /\ pc[t] = "check"
    /\ Goto(t, IF loc[t].face_id \in DOMAIN analysis_history THEN "lookup" ELSE "init",
            loc[t])
    /\ UNCHANGED <<known_faces, analysis_history, next_face_id, appended, allocated,
                   reused, Shared>>

InitKey(t) ==
    /\ pc[t] = "init"
    /\ analysis_history' = PutKey(analysis_history, loc[t].face_id, <<>>)
    /\ appended' = PutKey(appended, loc[t].face_id, <<>>)
    /\ pc' = [pc EXCEPT ![t] = "lookup"]
    /\ loc' = Rebind(t, loc[t].face_id, loc[t])
    /\ UNCHANGED <<known_faces, next_face_id, allocated, reused, Shared>>

(* self.analysis_history[face_id] of line 305: the list object *)
Lookup(t) ==
    /\ pc[t] = "lookup"
    /\ Goto(t, "append", [op |-> "add", face_id |-> loc[t].face_id,
                          entry |-> loc[t].entry, stale |-> FALSE])
    /\ UNCHANGED <<known_faces, analysis_history, next_face_id, appended, allocated,
                   reused, Shared>>

(* .append(history_entry) on that list object *)
AppendEntry(t) ==
    /\ pc[t] = "append"
    /\ analysis_history' =
          IF loc[t].stale THEN analysis_history
          ELSE [analysis_history EXCEPT ![loc[t].face_id] = Append(@, loc[t].entry)]
    /\ appended' = [appended EXCEPT ![loc[t].face_id] = Append(@, loc[t].entry)]
    /\ Goto(t, "len", [op |-> "add", face_id |-> loc[t].face_id, entry |-> loc[t].entry])
    /\ UNCHANGED <<known_faces, next_face_id, allocated, reused, Shared>>

(* if len(self.analysis_history[face_id]) > max_history *)
CheckLen(t) ==
    /\ pc[t] = "len"
    /\ Goto(t, IF Len(analysis_history[loc[t].face_id]) > max_history_per_face
               THEN "slice" ELSE "done",
            loc[t])
    /\ UNCHANGED <<known_faces, analysis_history, next_face_id, appended, allocated,
                   reused, Shared>>

(* self.analysis_history[face_id][-max_history:] *)
Slice(t) ==
    /\ pc[t] = "slice"
    /\ Goto(t, "store", [op |-> "add", face_id |-> loc[t].face_id, entry |-> loc[t].entry,
                         kept |-> LastN(analysis_history[loc[t].face_id],
                                        max_history_per_face)])
    /\ UNCHANGED <<known_faces, analysis_history, next_face_id, appended, allocated,
                   reused, Shared>>

(* self.analysis_history[face_id] = the slice *)
StoreSlice(t) ==
    /\ pc[t] = "store"
    /\ analysis_history' = [analysis_history EXCEPT ![loc[t].face_id] = loc[t].kept]
    /\ pc' = [pc EXCEPT ![t] = "done"]
    /\ loc' = Rebind(t, loc[t].face_id,
                     [op |-> "add", face_id |-> loc[t].face_id, entry |-> loc[t].entry])
    /\ UNCHANGED <<known_faces, next_face_id, appended, allocated, reused, Shared>>

NextConc ==
    \E t \in Threads :
        \/ \E enc \in Descriptors : StartResolve(t, enc)
        \/ Scan(t)
        \/ SetLastSeen(t)
        \/ SeenRead(t)
        \/ SeenWrite(t)
        \/ ReadId(t)
        \/ IncRead(t)
        \/ IncWrite(t)
        \/ StoreFace(t)
        \/ StoreHistory(t)
        \/ \E id \in DOMAIN analysis_history \cup {<<"fallback", clock>>},
                 results \in HistResults :
              StartAdd(t, id, results)
        \/ CheckKey(t)
        \/ InitKey(t)
        \/ Lookup(t)
        \/ AppendEntry(t)
        \/ CheckLen(t)
        \/ Slice(t)
        \/ StoreSlice(t)

SpecConc == InitConc /\ [][NextConc]_vars

----------------------------------------------------------------------------
(* The application: one analysis of an image after another (src/main.py) *)

MaxVisits == 2

(* _extract_face_encoding returned None *)
NoEncoding == <<"none">>

(* how a _save_data call ends: both files written, or an exception at the
   open or in the middle of the dump of one of the two files *)
SaveOutcomes == {"ok", "faces_open", "faces_write", "history_open", "history_write"}

(* the in-memory tables after _save_data, whose except branch only logs,
   replaced by tables emptied as in the except branch of _load_data *)
SaveDataLosing(kf, hist, nid, ff, hf, outcome) ==
    [kf |-> IF outcome = "ok" THEN kf ELSE <<>>,
     hist |-> IF outcome = "ok" THEN hist ELSE <<>>,
     nid |-> IF outcome = "ok" THEN nid ELSE 1,
     faces_file |-> ff, history_file |-> hf, raised |-> FALSE]

(* _save_data: the faces file is opened 'wb' and dumped, then the history
   file is opened 'w' and dumped; the first exception ends the call *)
SaveData(kf, hist, nid, ff, hf, outcome) ==
    [kf |-> kf, hist |-> hist, nid |-> nid,
     faces_file |->
        IF outcome = "faces_open" THEN ff
        ELSE IF outcome = "faces_write" THEN Corrupt
        ELSE [state |-> "written", known_faces |-> kf, next_face_id |-> nid],
     history_file |->
        IF outcome = "ok" THEN [state |-> "written", analysis_history |-> hist]
        ELSE IF outcome = "history_write" THEN Corrupt
        ELSE hf,
     raised |-> FALSE]

(* one turn of the loop of process_faces: the result r of
   _find_or_create_face for region i entered in the tracking result *)
Tracked(st, i, r) ==
    [kf |-> r.kf, hist |-> r.hist, nid |-> r.nid,
     face_mappings |-> Append(st.face_mappings, <<i, r.face_id>>),
     created |-> IF r.is_new THEN Append(st.created, r.face_id) ELSE st.created,
     recognized_faces |-> st.recognized_faces + (IF r.is_new THEN 0 ELSE 1)]

(* the loop of process_faces over the regions, from region i on *)
RECURSIVE ProcessRegions(_, _, _, _)
ProcessRegions(st, regions, i, now) ==
    IF i > Len(regions) THEN st
    ELSE IF regions[i] = NoEncoding THEN ProcessRegions(st, regions, i + 1, now)
    ELSE CHOOSE out \in {ProcessRegions(next, regions, i + 1, now) :
                            next \in {Tracked(st, i, r) :
                                         r \in {FindOrCreate(st.kf, st.hist, st.nid,
                                                             regions[i], now)}}} : TRUE

(* _basic_face_tracking: ids made of the region's position *)
BasicMappings(regions) == [i \in 1..Len(regions) |-> <<i, <<"basic", i - 1>>>>]

(* the end of process_faces: st is what the loop left, sv what _save_data left *)
Processed(st, sv) ==
    [kf |-> sv.kf, hist |-> sv.hist, nid |-> sv.nid,
     faces_file |-> sv.faces_file, history_file |-> sv.history_file,
     created |-> st.created,
     result |->
        IF sv.raised
        THEN [face_mappings |-> <<>>, new_faces |-> 0, recognized_faces |-> 0,
              tracked_faces |-> 0, error |-> TRUE]
        ELSE [face_mappings |-> st.face_mappings,
              new_faces |-> Len(st.created),
              recognized_faces |-> st.recognized_faces,
              tracked_faces |-> Len(st.face_mappings), error |-> FALSE]]

(* process_faces: the tables, the files and the tracking result after it *)
ProcessFaces(kf, hist, nid, ff, hf, available, regions, outcome, now) ==
    IF ~available
    THEN [kf |-> kf, hist |-> hist, nid |-> nid, faces_file |-> ff, history_file |-> hf,
          created |-> <<>>,
          result |-> [face_mappings |-> BasicMappings(regions),
                      new_faces |-> Len(regions), recognized_faces |-> 0,
                      tracked_faces |-> Len(regions), error |-> FALSE]]
    ELSE CHOOSE out \in
            {Processed(st, SaveData(st.kf, st.hist, st.nid, ff, hf, outcome)) :
                st \in {ProcessRegions([kf |-> kf, hist |-> hist, nid |-> nid,
                                        face_mappings |-> <<>>, created |-> <<>>,
                                        recognized_faces |-> 0], regions, 1, now)}} : TRUE

AppEncodings == {<<0, 0>>, <<4, 0>>}

(* the regions of one image: one eye, with the descriptor extracted or None,
   or the two eyes of one face *)
RegionLists ==
    {<<e>> : e \in AppEncodings \cup {NoEncoding}} \cup {<<e, e>> : e \in AppEncodings}

InitApp ==
    /\ known_faces = <<>>
    /\ analysis_history = <<>>
    /\ next_face_id = 1
    /\ faces_file = Missing
    /\ history_file = Missing
    /\ clock = 0
    /\ appended = <<>>
    /\ allocated = {}
    /\ reused = FALSE
    /\ ret = NoCall
    /\ pc = Idle
    /\ loc = NoLocals
    /\ face_recognition_available \in BOOLEAN
    /\ current_face_id = NoFace
    /\ processing = FALSE
    /\ asking = FALSE
    /\ analysis_sessions = <<>>

(* load_image: a new image is shown and the previous patient forgotten *)
LoadImage ==
    /\ current_face_id' = NoFace
    /\ ret' = [op |-> "load_image"]
    /\ UNCHANGED <<known_faces, analysis_history, next_face_id, faces_file, history_file,
                   clock, appended, allocated, reused, pc, loc,
                   face_recognition_available, front>>

(* analysis_thread of analyze_image, for an image with at least one region:
   process_faces when face tracking is switched on, the analysis of the
   regions (its results are an input here), then add_analysis_result and
   adjust_confidence_with_history for current_face_id *)
Analyze(tracking, regions, results, outcome) ==
    \E pf \in {IF tracking
               THEN ProcessFaces(known_faces, analysis_history, next_face_id, faces_file,
                                 history_file, face_recognition_available, regions,
                                 outcome, clock)
               ELSE [kf |-> known_faces, hist |-> analysis_history, nid |-> next_face_id,
                     faces_file |-> faces_file, history_file |-> history_file,
                     created |-> <<>>, result |-> NoCall]} :
    \E cur \in {IF tracking /\ Len(pf.result.face_mappings) > 0
                THEN pf.result.face_mappings[1][2]
                ELSE current_face_id} :
    \E entry \in {HistoryEntry(results, Len(results), "photo", clock)} :
    \E hist \in {IF tracking /\ cur # NoFace
                 THEN AddAnalysisResult(pf.hist, cur, entry) ELSE pf.hist} :
    \E made \in {{pf.created[i] : i \in 1..Len(pf.created)}} :
    \E base \in {[id \in DOMAIN pf.hist |-> IF id \in made THEN <<>> ELSE appended[id]]} :
        /\ known_faces' = pf.kf
        /\ next_face_id' = pf.nid
        /\ faces_file' = pf.faces_file
        /\ history_file' = pf.history_file
        /\ analysis_history' = hist
        /\ current_face_id' = cur
        /\ appended' = IF tracking /\ cur # NoFace
                       THEN PutKey(base, cur,
                                   Append(IF cur \in DOMAIN base THEN base[cur] ELSE <<>>,
                                          entry))
                       ELSE base
        /\ allocated' = allocated \cup made
        /\ reused' = (reused \/ made \cap allocated # {})
        /\ ret' = [op |-> "analyze", tracking |-> pf.result, regions |-> regions,
                   outcome |-> outcome, face_id |-> cur, created |-> pf.created,
                   ids_before |-> FaceIds(known_faces) \cup DOMAIN analysis_history,
                   after_process_faces |-> [known_faces |-> pf.kf,
                                            analysis_history |-> pf.hist,
                                            next_face_id |-> pf.nid],
                   recorded |-> (tracking /\ cur # NoFace), entry |-> entry,
                   consulted |-> IF tracking /\ cur # NoFace THEN hist[cur] ELSE <<>>,
                   input |-> results,
                   output |-> IF tracking /\ cur # NoFace
                              THEN AdjustConfidenceWithHistory(hist, cur, results, clock)
                              ELSE [i \in 1..Len(results) |-> Unadjusted(results[i])]]
        /\ UNCHANGED <<clock, pc, loc, face_recognition_available, front>>

AnalyzeBounded(tracking, regions, results, outcome) ==
    /\ Analyze(tracking, regions, results, outcome)
    /\ \A i \in 1..Len(known_faces') : known_faces'[i].seen_count <= MaxVisits
    /\ \A id \in DOMAIN appended' : Len(appended'[id]) <= MaxVisits

(* save_data when the window is closed *)
SaveOnClose(outcome) ==
    LET sv == SaveData(known_faces, analysis_history, next_face_id, faces_file,
                       history_file, outcome)
    IN  /\ known_faces' = sv.kf
        /\ analysis_history' = sv.hist
        /\ next_face_id' = sv.nid
        /\ faces_file' = sv.faces_file
        /\ history_file' = sv.history_file
        /\ appended' = [id \in DOMAIN sv.hist |-> appended[id]]
        /\ ret' = [op |-> "save", outcome |-> outcome]
        /\ UNCHANGED <<clock, allocated, reused, pc, loc, app>>

(* the application while every write to the disk succeeds *)
NextApp ==
    \/ LoadImage
    \/ \E tracking \in BOOLEAN, regions \in RegionLists, results \in StoreResults :
          AnalyzeBounded(tracking, regions, results, "ok")
    \/ SaveOnClose("ok")
    \/ Restart

SpecApp == InitApp /\ [][NextApp]_vars

(* one patient, face tracking switched on, and writes that can fail *)
NextPersist ==
    \/ \E results \in StoreResults, outcome \in SaveOutcomes :
          AnalyzeBounded(TRUE, <<<<0, 0>>>>, results, outcome)
    \/ \E outcome \in SaveOutcomes : SaveOnClose(outcome)
    \/ Restart

SpecPersist == InitApp /\ [][NextPersist]_vars

----------------------------------------------------------------------------
(* get_face_analysis_summary and get_all_tracked_faces *)

(* dict.get of a key that is absent *)
None == <<"none">>

(* a summary whose total_analyses also counts the summaries asked for in a
   row *)
SummaryCounting(kf, hist, id) ==
    [face_id |-> id, total_analyses |-> IF ret.op = "summary" THEN 1 ELSE 0,
     positive_analyses |-> 0]

(* the summary of an identity without history, returned for every identity *)
SummaryShort(kf, hist, id) ==
    IF id \notin DOMAIN hist THEN [error |-> "Face not found"]
    ELSE [face_id |-> id,
          total_analyses |-> Len(hist[id]),
          positive_analyses |->
             Cardinality({i \in 1..Len(hist[id]) : hist[id][i].has_positive_findings}),
          recommendation |-> "No analysis history available"]

(* get_face_analysis_summary.  consistency_rate is kept in hundredths of a
   percent, rounded down; the test consistency_rate > 50 is made exactly, as
   2 * positive_analyses > total_analyses *)
GetFaceAnalysisSummary(kf, hist, id) ==
    IF id \notin DOMAIN hist THEN [error |-> "Face not found"]
    ELSE IF hist[id] = <<>>
    THEN [face_id |-> id,
          total_analyses |-> 0,
          positive_analyses |-> 0,
          first_seen |-> IF id \in FaceIds(kf) THEN kf[FaceIndex(kf, id)].first_seen
                         ELSE None,
          last_seen |-> IF id \in FaceIds(kf) THEN kf[FaceIndex(kf, id)].last_seen
                        ELSE None,
          recommendation |-> "No analysis history available"]
    ELSE LET total == Len(hist[id])
             positive == Cardinality({i \in 1..total : hist[id][i].has_positive_findings})
             level == IF positive >= 2 THEN "immediate"
                      ELSE IF positive = 1 /\ total >= 2 THEN "soon"
                      ELSE IF 2 * positive > total THEN "urgent"
                      ELSE "routine"
         IN  [face_id |-> id,
              total_analyses |-> total,
              positive_analyses |-> positive,
              consistency_rate |-> (positive * 10000) \div total,
              first_seen |-> IF id \in FaceIds(kf) THEN kf[FaceIndex(kf, id)].first_seen
                             ELSE None,
              last_seen |-> IF id \in FaceIds(kf) THEN kf[FaceIndex(kf, id)].last_seen
                            ELSE None,
              seen_count |-> IF id \in FaceIds(kf) THEN kf[FaceIndex(kf, id)].seen_count
                             ELSE 0,
              recommendation |->
                 IF level = "immediate"
                 THEN "URGENT: Multiple positive findings - immediate medical consultation required"
                 ELSE IF level = "soon"
                 THEN "MONITOR: One positive finding - follow-up recommended"
                 ELSE IF level = "urgent"
                 THEN "EVALUATE: Concerning pattern - medical evaluation advised"
                 ELSE "CONTINUE: Regular monitoring - no immediate concerns",
              urgency |-> level,
              recent_analyses |-> LastN(hist[id], 3)]

(* urgency_order.get(x.get('urgency', 'routine'), 3) *)
UrgencyOrder(summary) ==
    IF "urgency" \notin DOMAIN summary THEN 3
    ELSE IF summary.urgency = "immediate" THEN 0
    ELSE IF summary.urgency = "urgent" THEN 1
    ELSE IF summary.urgency = "soon" THEN 2
    ELSE 3

(* the sort key of get_all_tracked_faces *)
SortKey(summary) ==
    <<UrgencyOrder(summary), 0 - summary.positive_analyses, 0 - summary.total_analyses>>

KeyLess(a, b) ==
    \/ a[1] < b[1]
    \/ a[1] = b[1] /\ a[2] < b[2]
    \/ a[1] = b[1] /\ a[2] = b[2] /\ a[3] < b[3]

(* list.sort is stable: x goes before the first element with a greater key *)
InsertSorted(sorted, x) ==
    LET before == {i \in 1..Len(sorted) : ~KeyLess(SortKey(x), SortKey(sorted[i]))}
        n == IF \E i \in 1..Len(sorted) : KeyLess(SortKey(x), SortKey(sorted[i]))
             THEN (CHOOSE i \in 1..Len(sorted) :
                      /\ KeyLess(SortKey(x), SortKey(sorted[i]))
                      /\ \A j \in 1..(i - 1) : ~KeyLess(SortKey(x), SortKey(sorted[j]))) - 1
             ELSE Len(sorted)
    IN  SubSeq(sorted, 1, n) \o <<x>> \o SubSeq(sorted, n + 1, Len(sorted))

RECURSIVE SortSummaries(_, _)
SortSummaries(summaries, n) ==
    IF n = 0 THEN <<>>
    ELSE InsertSorted(SortSummaries(summaries, n - 1), summaries[n])

(* the summaries in the order of known_faces.keys(), those with an error left out *)
RECURSIVE CollectSummaries(_, _, _)
CollectSummaries(kf, hist, n) ==
    IF n = 0 THEN <<>>
    ELSE IF kf[n].id \in DOMAIN hist
         THEN Append(CollectSummaries(kf, hist, n - 1),
                     GetFaceAnalysisSummary(kf, hist, kf[n].id))
         ELSE CollectSummaries(kf, hist, n - 1)

(* the summaries as collected, not sorted *)
GetAllTrackedFacesUnsorted(kf, hist) == CollectSummaries(kf, hist, Len(kf))

GetAllTrackedFaces(kf, hist) ==
    SortSummaries(CollectSummaries(kf, hist, Len(kf)),
                  Len(CollectSummaries(kf, hist, Len(kf))))

----------------------------------------------------------------------------
(* The store with its queries: each patient seen once, then analysed again
   and again, summaries and the list asked for in between *)

MaxEntries == 3

QueryDescriptors == {<<0, 0>>, <<4, 0>>}

(* an id the store never hands out *)
UnknownId == ChildId(0)

(* what the previous call returned, kept when it was a summary of the same id *)
PriorSummary(id) ==
    IF ret.op = "summary" /\ ret.face_id = id
    THEN [op |-> "summary", result |-> ret.result]
    ELSE NoCall

Summary(id) ==
    /\ ret' = [op |-> "summary", face_id |-> id,
               result |-> GetFaceAnalysisSummary(known_faces, analysis_history, id),
               prior |-> PriorSummary(id),
               before |-> [known_faces |-> known_faces,
                           analysis_history |-> analysis_history,
                           next_face_id |-> next_face_id]]
    /\ UNCHANGED <<known_faces, analysis_history, next_face_id, faces_file, history_file,
                   clock, appended, allocated, reused, pc, loc, app>>

ListAll ==
    /\ ret' = [op |-> "list",
               result |-> GetAllTrackedFaces(known_faces, analysis_history)]
    /\ UNCHANGED <<known_faces, analysis_history, next_face_id, faces_file, history_file,
                   clock, appended, allocated, reused, pc, loc, app>>

NextQuery ==
    \/ \E enc \in QueryDescriptors : ~IsMatch(known_faces, enc) /\ Resolve(enc)
    \/ \E id \in DOMAIN analysis_history, results \in HistResults :
          RecordBounded(id, results, MaxEntries)
    \/ \E id \in FaceIds(known_faces) \cup {UnknownId} : Summary(id)
    \/ ListAll

SpecQuery == Init /\ [][NextQuery]_vars

(* every operation of the store in one process, the reset included *)
NextLife ==
    \/ \E enc \in Descriptors : ResolveBounded(enc)
    \/ \E id \in DOMAIN analysis_history, results \in StoreResults :
          RecordBounded(id, results, MaxRecords)
    \/ \E id \in DOMAIN analysis_history, results \in StoreResults : Adjust(id, results)
    \/ \E id \in FaceIds(known_faces) : Summary(id)
    \/ Save
    \/ \E confirm \in BOOLEAN : Reset(confirm)

SpecLife == Init /\ [][NextLife]_vars

----------------------------------------------------------------------------
(* _reevaluate_risk_level_with_history on every result *)

(* the confidences on either side of each threshold of the table *)
RiskConfidences ==
    {2000, 3000, 3100, 4400, 4500, 5400, 5500, 6400, 6500, 7400, 7500, 8400, 8500}

RiskFactors == {0, 10, 20}

RiskLevels == {<<"low", "routine">>, <<"medium", "soon">>, <<"high", "immediate">>}

(* a result dict as the function finds it *)
RiskInput(detected, conf, adjusted, af, level) ==
    [Unadjusted(Finding(detected, conf, level[1], level[2]))
        EXCEPT !.confidence_adjusted = adjusted, !.adjustment_factor = af]

Reevaluate(r) ==
    /\ ret' = [op |-> "reevaluate", input |-> r, output |-> ReevaluateRisk(r)]
    /\ UNCHANGED <<known_faces, analysis_history, next_face_id, faces_file, history_file,
                   clock, appended, allocated, reused, pc, loc, app>>

NextRisk ==
    \E detected \in BOOLEAN, conf \in RiskConfidences, adjusted \in BOOLEAN,
       af \in RiskFactors, level \in RiskLevels :
          Reevaluate(RiskInput(detected, conf, adjusted, af, level))

SpecRisk == Init /\ [][NextRisk]_vars

----------------------------------------------------------------------------
(* The window: analyze_image on the Tk thread, analysis_thread in the
   background, face tracking switched off (src/main.py) *)

MaxThreads == 3

GuiThreads == 1..MaxThreads

InitGui ==
    /\ known_faces = <<>>
    /\ analysis_history = <<>>
    /\ next_face_id = 1
    /\ faces_file = Missing
    /\ history_file = Missing
    /\ clock = 0
    /\ appended = <<>>
    /\ allocated = {}
    /\ reused = FALSE
    /\ ret = NoCall
    /\ pc = [t \in GuiThreads |-> "unstarted"]
    /\ loc = NoLocals
    /\ face_recognition_available = TRUE
    /\ current_face_id = NoFace
    /\ processing = FALSE
    /\ asking = FALSE
    /\ analysis_sessions = <<>>

Store == <<known_faces, analysis_history, next_face_id, faces_file, history_file,
           clock, appended, allocated, reused>>

(* analyze_image up to the askyesno dialog: the test of self.processing *)
ClickAnalyze ==
    /\ ~asking
    /\ IF processing
       THEN /\ ret' = [op |-> "analyze_image", result |-> "already_in_progress"]
            /\ UNCHANGED asking
       ELSE /\ ret' = [op |-> "analyze_image", result |-> "asking"]
            /\ asking' = TRUE
    /\ UNCHANGED <<Store, pc, loc, face_recognition_available, current_face_id,
                   processing, analysis_sessions>>

(* the answer to the dialog, then threading.Thread(...).start() *)
Answer(yes) ==
    /\ asking
    /\ asking' = FALSE
    /\ IF yes
       THEN \E t \in GuiThreads :
               /\ pc[t] = "unstarted"
               /\ \A u \in GuiThreads : u < t => pc[u] # "unstarted"
               /\ pc' = [pc EXCEPT ![t] = "launched"]
               /\ ret' = [op |-> "analyze_image", result |-> "started", thread |-> t]
       ELSE /\ ret' = [op |-> "analyze_image", result |-> "declined"]
            /\ UNCHANGED pc
    /\ UNCHANGED <<Store, loc, face_recognition_available, current_face_id,
                   processing, analysis_sessions>>

(* the first statement of analysis_thread *)
SetProcessing(t) ==
    /\ pc[t] = "launched"
    /\ processing' = TRUE
    /\ pc' = [pc EXCEPT ![t] = "detecting"]
    /\ UNCHANGED <<Store, ret, loc, face_recognition_available, current_face_id,
                   asking, analysis_sessions>>

(* step 1: no region found returns from inside the try, an exception goes
   to the except branch; both reach the finally block *)
Detect(t, found) ==
    /\ pc[t] = "detecting"
    /\ pc' = [pc EXCEPT ![t] = IF found THEN "analysing" ELSE "finally"]
    /\ UNCHANGED <<Store, ret, loc, app>>

(* steps 3 to 5, the handler left alone since face tracking is off *)
RunAnalysis(t) ==
    /\ pc[t] = "analysing"
    /\ pc' = [pc EXCEPT ![t] = "finally"]
    /\ UNCHANGED <<Store, ret, loc, app>>

(* finally: self.processing = False *)
ClearProcessing(t) ==
    /\ pc[t] = "finally"
    /\ processing' = FALSE
    /\ pc' = [pc EXCEPT ![t] = "done"]
    /\ UNCHANGED <<Store, ret, loc, face_recognition_available, current_face_id,
                   asking, analysis_sessions>>

NextGui ==
    \/ ClickAnalyze
    \/ \E yes \in BOOLEAN : Answer(yes)
    \/ \E t \in GuiThreads : SetProcessing(t)
    \/ \E t \in GuiThreads, found \in BOOLEAN : Detect(t, found)
    \/ \E t \in GuiThreads : RunAnalysis(t)
    \/ \E t \in GuiThreads : ClearProcessing(t)

SpecGui == InitGui /\ [][NextGui]_vars

----------------------------------------------------------------------------
(* The API server: start_analysis, the task run_REAL_analysis_async and
   get_analysis_results (src/api_server.py) *)

MaxSessions == 2

Sessions == 1..MaxSessions

InitApi ==
    /\ known_faces = <<>>
    /\ analysis_history = <<>>
    /\ next_face_id = 1
    /\ faces_file = Missing
    /\ history_file = Missing
    /\ clock = 0
    /\ appended = <<>>
    /\ allocated = {}
    /\ reused = FALSE
    /\ ret = NoCall
    /\ pc = [s \in Sessions |-> "none"]
    /\ loc = NoLocals
    /\ face_recognition_available = TRUE
    /\ current_face_id = NoFace
    /\ processing = FALSE
    /\ asking = FALSE
    /\ analysis_sessions = <<>>

Handler == <<Store, loc, face_recognition_available, current_face_id, processing, asking>>

(* start_analysis: HTTP 400 (turned into 500) while the system is not ready,
   else the task is created and the session registered as running; one task
   per session at a time *)
StartAnalysis(s, ready) ==
    /\ pc[s] \in {"none", "finished"}
    /\ IF ready
       THEN /\ pc' = [pc EXCEPT ![s] = "created"]
            /\ analysis_sessions' = PutKey(analysis_sessions, s, [status |-> "running"])
            /\ ret' = [op |-> "start_analysis", session |-> s, status |-> "started"]
       ELSE /\ ret' = [op |-> "start_analysis", session |-> s, status |-> "http_500"]
            /\ UNCHANGED <<pc, analysis_sessions>>
    /\ UNCHANGED Handler

(* glob.glob(f"uploads/{session_id}_*"): raise when no file is found *)
FindImage(s, found) ==
    /\ pc[s] = "created"
    /\ pc' = [pc EXCEPT ![s] = IF found THEN "detecting" ELSE "raised"]
    /\ UNCHANGED <<Handler, ret, analysis_sessions>>

(* eye_detector.detect_eyes_and_faces *)
DetectEyes(s, ok) ==
    /\ pc[s] = "detecting"
    /\ pc' = [pc EXCEPT ![s] = IF ok THEN "analysing" ELSE "raised"]
    /\ UNCHANGED <<Handler, ret, analysis_sessions>>

(* gemma_handler.analyze_eye_regions, or the fallback result *)
AnalyzeRegions(s, ok) ==
    /\ pc[s] = "analysing"
    /\ pc' = [pc EXCEPT ![s] = IF ok THEN "finalizing" ELSE "raised"]
    /\ UNCHANGED <<Handler, ret, analysis_sessions>>

(* 4. Finaliser *)
Finalize(s) ==
    /\ pc[s] = "finalizing"
    /\ analysis_sessions' = PutKey(analysis_sessions, s, [status |-> "completed"])
    /\ pc' = [pc EXCEPT ![s] = "finished"]
    /\ UNCHANGED <<Handler, ret>>

(* the except branch of run_REAL_analysis_async: a log line and a broadcast *)
ExceptBranch(s) ==
    /\ pc[s] = "raised"
    /\ pc' = [pc EXCEPT ![s] = "finished"]
    /\ UNCHANGED <<Handler, ret, analysis_sessions>>

GetAnalysisResults(s) ==
    /\ ret' = [op |-> "get_analysis_results", session |-> s,
               status |-> IF s \in DOMAIN analysis_sessions
                          THEN analysis_sessions[s].status ELSE "http_404"]
    /\ UNCHANGED <<Handler, pc, analysis_sessions>>

NextApi ==
    \/ \E s \in Sessions, ready \in BOOLEAN : StartAnalysis(s, ready)
    \/ \E s \in Sessions, found \in BOOLEAN : FindImage(s, found)
    \/ \E s \in Sessions, ok \in BOOLEAN : DetectEyes(s, ok)
    \/ \E s \in Sessions, ok \in BOOLEAN : AnalyzeRegions(s, ok)
    \/ \E s \in Sessions : Finalize(s)
    \/ \E s \in Sessions : ExceptBranch(s)
    \/ \E s \in Sessions : GetAnalysisResults(s)

SpecApi == InitApi /\ [][NextApi]_vars

----------------------------------------------------------------------------
(* Claims *)

(* C1: every history holds at most max_history_per_face entries, and exactly
   that many once 11 or more results were recorded for the identity. *)
C1_HistoryBounded ==
    \A id \in DOMAIN analysis_history :
        /\ Len(analysis_history[id]) <= max_history_per_face
        /\ Len(appended[id]) >= max_history_per_face + 1
              => Len(analysis_history[id]) = max_history_per_face

C1_Witness ==
    \E id \in DOMAIN analysis_history :
        /\ ret.op = "record"
        /\ Len(appended[id]) = max_history_per_face + 2
        /\ Len(analysis_history[id]) = max_history_per_face

(* C2 as stated: two descriptors closer than 0.4, resolved one after the
   other against the same store, get the same identity id. *)
ResolvedTwice == ret.op = "resolve" /\ ret.prior.op = "resolve"

CloseCalls == ResolvedTwice /\ WithinThreshold(SqDist(ret.arg, ret.prior.arg))

C2_AsStated == CloseCalls => ret.face_id = ret.prior.face_id

(* the identities that were in the store before the two calls *)
CreatedByCalls(id) ==
    \/ ret.prior.is_new /\ id = ret.prior.face_id
    \/ ret.is_new /\ id = ret.face_id

OthersFar ==
    \A i \in 1..Len(known_faces) :
        CreatedByCalls(known_faces[i].id)
        \/ /\ ~WithinThreshold(SqDist(ret.arg, known_faces[i].encoding))
           /\ ~WithinThreshold(SqDist(ret.prior.arg, known_faces[i].encoding))

(* C2 amended: two descriptors closer than 0.4 to each other, both at
   distance 0.4 or more from every prototype stored before the two calls,
   get the same identity id when resolved one after the other. *)
C2_SameIdWhenOthersFar == (CloseCalls /\ OthersFar) => ret.face_id = ret.prior.face_id

C2_Witness ==
    /\ CloseCalls
    /\ OthersFar
    /\ ret.arg # ret.prior.arg
    /\ ret.prior.is_new
    /\ ~ret.is_new
    /\ Len(known_faces) = 2

(* C4: the ids of the stored identities are pairwise distinct, and no id is
   handed out to a second identity. *)
UniqueIds ==
    \A i, j \in 1..Len(known_faces) : known_faces[i].id = known_faces[j].id => i = j

C4_IdsNeverReused == UniqueIds /\ ~reused

(* the call just made was adjust_confidence_with_history; its history *)
Adjusted == ret.op = "adjust"

AdjustedHistory ==
    IF ret.face_id \in DOMAIN analysis_history THEN analysis_history[ret.face_id] ELSE <<>>

InWindow(e) == e.timestamp[2] > clock - WindowDays

InWindowCount(h) == Cardinality({i \in 1..Len(h) : InWindow(h[i])})

PositiveCount(h) == Cardinality({i \in 1..Len(h) : h[i].has_positive_findings})

Clamp(x, lo, hi) == IF x < lo THEN lo ELSE IF x > hi THEN hi ELSE x

OutputUnchanged ==
    /\ Len(ret.output) = Len(ret.input)
    /\ \A i \in 1..Len(ret.input) : ret.output[i] = Unadjusted(ret.input[i])

(* C3: two concurrent _find_or_create_face calls whose descriptors are within
   the matching threshold of each other, with no stored identity within the
   threshold of either, create at most one identity and return the same id *)
BothResolved == \A t \in Threads : pc[t] = "done" /\ loc[t].op = "resolve"

StoredBefore(f) == \A t \in Threads : ~(loc[t].is_new /\ loc[t].face_id = f.id)

C3_ConcurrentResolveSameId ==
    (/\ BothResolved
     /\ WithinThreshold(SqDist(loc[1].enc, loc[2].enc))
     /\ \A i \in 1..Len(known_faces) :
           StoredBefore(known_faces[i]) =>
              \A t \in Threads :
                 ~WithinThreshold(SqDist(known_faces[i].encoding, loc[t].enc)))
    => /\ loc[1].face_id = loc[2].face_id
       /\ ~(loc[1].is_new /\ loc[2].is_new)

(* C5: after two concurrent add_analysis_result calls for one identity the
   history holds at most max_history_per_face entries and holds both new
   entries (with two appends and a limit of ten neither can be among the
   oldest beyond the limit) *)
BothAdded ==
    /\ \A t \in Threads : pc[t] = "done" /\ loc[t].op = "add"
    /\ loc[1].face_id = loc[2].face_id

Holds(h, e) == \E i \in 1..Len(h) : h[i] = e

C5_ConcurrentAppendsKept ==
    BothAdded =>
       /\ Len(analysis_history[loc[1].face_id]) <= max_history_per_face
       /\ \A t \in Threads : Holds(analysis_history[loc[1].face_id], loc[t].entry)

(* C6: every returned confidence lies in [0, 100], and an adjusted one is
   clamp(original_confidence * (1 + adjustment_factor), 0, 100). *)
C6_ConfidenceClamped ==
    Adjusted =>
        \A i \in 1..Len(ret.output) :
            LET out == ret.output[i]
            IN  /\ out.confidence >= 0
                /\ out.confidence <= 10000
                /\ out.confidence_adjusted =>
                      /\ out.original_confidence = ret.input[i].confidence
                      /\ 100 * out.confidence =
                            Clamp(ret.input[i].confidence * (100 + out.adjustment_factor),
                                  0, 1000000)

C6_Witness ==
    /\ Adjusted
    /\ Len(ret.output) = 1
    /\ ret.output[1].confidence_adjusted
    /\ ret.output[1].confidence = 10000
    /\ ret.input[1].confidence * (100 + ret.output[1].adjustment_factor) > 1000000

(* C7 as stated: with fewer than 2 history entries inside the 30-day window
   the findings come back unchanged. *)
C7_AsStated == (Adjusted /\ InWindowCount(AdjustedHistory) < 2) => OutputUnchanged

(* C7 amended: with fewer than 2 history entries in all, or with no entry
   inside the 30-day window, the findings come back unchanged. *)
C7_UnchangedWithoutRecentHistory ==
    (Adjusted /\ (Len(AdjustedHistory) < 2 \/ InWindowCount(AdjustedHistory) = 0))
        => OutputUnchanged

C7_Witness ==
    /\ Adjusted
    /\ Len(AdjustedHistory) >= 3
    /\ \A i \in 1..Len(AdjustedHistory) : AdjustedHistory[i].timestamp[1] = "num"
    /\ InWindowCount(AdjustedHistory) = 0
    /\ PositiveCount(AdjustedHistory) >= 2
    /\ ret.input = <<Positive55>>
    /\ OutputUnchanged

(* C8: Scenario A. Three entries recorded by add_analysis_result inside the
   window, two of them positive; a detected finding at 55 % gets an
   adjustment factor of at least 0.15, a confidence of at least 63 % and a
   medium or high risk. *)
ScenarioA ==
    /\ Adjusted
    /\ ret.input = <<Positive55>>
    /\ Len(AdjustedHistory) = 3
    /\ \A i \in 1..3 : AdjustedHistory[i].timestamp[1] = "iso" /\ InWindow(AdjustedHistory[i])
    /\ PositiveCount(AdjustedHistory) = 2

C8_ScenarioA ==
    ScenarioA =>
        /\ ret.output[1].adjustment_factor >= 15
        /\ ret.output[1].confidence >= 6300
        /\ ret.output[1].risk_level \in {"medium", "high"}

(* C9: Scenario C. Four entries recorded by add_analysis_result inside the
   window, three of them positive; a finding not detected at 25 % gets the
   false-negative rule (+0.20, with its reasoning), and the detection is
   changed only if the new confidence exceeds 50 %. *)
ScenarioC ==
    /\ Adjusted
    /\ ret.input = <<Negative25>>
    /\ Len(AdjustedHistory) = 4
    /\ \A i \in 1..4 : AdjustedHistory[i].timestamp[1] = "iso"
    /\ InWindowCount(AdjustedHistory) = 4
    /\ PositiveCount(AdjustedHistory) = 3

C9_ScenarioC ==
    ScenarioC =>
        /\ \E k \in 1..Len(ret.output[1].adjustment_reasoning) :
              ret.output[1].adjustment_reasoning[k] = "possible_false_negative"
        /\ ret.output[1].adjustment_factor >= 20
        /\ ret.output[1].detection_changed_by_history => ret.output[1].confidence > 5000

(* C10: Scenario B. Five entries inside the window, none positive; a finding
   not detected at 20 % comes back as given, with no adjustment factor. *)
ScenarioB ==
    /\ Adjusted
    /\ ret.input = <<Negative20>>
    /\ Len(AdjustedHistory) = 5
    /\ InWindowCount(AdjustedHistory) = 5
    /\ PositiveCount(AdjustedHistory) = 0

C10_ScenarioB ==
    ScenarioB => /\ ret.output[1].adjustment_factor = 0
                 /\ OutputUnchanged

C10_Witness ==
    /\ ScenarioB
    /\ \A i \in 1..5 : AdjustedHistory[i].timestamp[1] = "num"
    /\ \E i \in 1..5 : AdjustedHistory[i].regions_analyzed = 0
    /\ \E i \in 1..5 : AdjustedHistory[i].regions_analyzed > 0
    /\ ret.output[1].confidence = 2000

(* the call just made was an analysis with face tracking on and the
   face_recognition library available *)
Tracked1 == ret.op = "analyze" /\ ret.tracking # NoCall /\ face_recognition_available

AnalysisUnadjusted ==
    /\ Len(ret.output) = Len(ret.input)
    /\ \A i \in 1..Len(ret.input) : ret.output[i] = Unadjusted(ret.input[i])

(* the identities process_faces created in the call just made *)
CreatedNow(id) == \E k \in 1..Len(ret.created) : ret.created[k] = id

FirstRegionUnknown ==
    /\ Tracked1
    /\ ret.regions[1] # NoEncoding
    /\ \A i \in 1..Len(known_faces) :
          CreatedNow(known_faces[i].id)
          \/ ~WithinThreshold(SqDist(ret.regions[1], known_faces[i].encoding))

(* C11: Scenario D. An analysis whose first region has a descriptor at
   distance 0.4 or more from every prototype stored before it creates an
   identity (is_new) under an id that was in neither table of the store
   before, its history is empty when process_faces returns, and recording
   then adjusting this first analysis returns the findings as given. *)
C11_ScenarioD ==
    FirstRegionUnknown =>
       /\ ret.tracking.new_faces >= 1
       /\ ret.created[1] = ret.face_id
       /\ ret.face_id \notin ret.ids_before
       /\ ret.after_process_faces.analysis_history[ret.face_id] = <<>>
       /\ analysis_history[ret.face_id] = <<ret.entry>>
       /\ AnalysisUnadjusted

(* C12: analysis_history has keys only for identities created by the
   resolver; a basic_ or fallback_ id never gets a history entry. *)
C12_HistoryOnlyForResolvedIds == DOMAIN analysis_history \subseteq allocated

(* a file that exists and can be parsed *)
Persisted(f) == f.state = "written"

(* C13: after a load with exactly one of the two files missing or corrupt,
   that table is empty and the other table holds what was persisted. *)
C13_TablesLoadIndependently ==
    (ret.op = "restart" /\ Persisted(faces_file) # Persisted(history_file))
    => /\ known_faces = IF Persisted(faces_file) THEN faces_file.known_faces ELSE <<>>
       /\ analysis_history = IF Persisted(history_file)
                             THEN history_file.analysis_history ELSE <<>>

(* C14: once an analysis has resolved an identity and appended its history
   entry, the files hold the identity and that entry. *)
C14_SnapshotHoldsAnalysis ==
    (Tracked1 /\ ret.recorded /\ ret.face_id \in FaceIds(known_faces))
    => /\ Persisted(faces_file)
       /\ ret.face_id \in FaceIds(faces_file.known_faces)
       /\ Persisted(history_file)
       /\ ret.face_id \in DOMAIN history_file.analysis_history
       /\ \E i \in 1..Len(history_file.analysis_history[ret.face_id]) :
             history_file.analysis_history[ret.face_id][i] = ret.entry

(* C15: when the write of _save_data fails at either file, the identities,
   the histories and the id counter are those the loop of process_faces
   left, and process_faces returns its tracking result, not an error. *)
C15_FailedWriteKeepsMemory ==
    [][(/\ ret'.op = "analyze"
        /\ ret'.tracking # NoCall
        /\ face_recognition_available
        /\ ret'.outcome # "ok")
       => LET st == ProcessRegions([kf |-> known_faces, hist |-> analysis_history,
                                    nid |-> next_face_id, face_mappings |-> <<>>,
                                    created |-> <<>>, recognized_faces |-> 0],
                                   ret'.regions, 1, clock)
          IN  /\ ret'.after_process_faces =
                    [known_faces |-> st.kf, analysis_history |-> st.hist,
                     next_face_id |-> st.nid]
              /\ known_faces' = st.kf
              /\ next_face_id' = st.nid
              /\ ~ret'.tracking.error
              /\ ret'.tracking.face_mappings = st.face_mappings]_vars

C15_Witness ==
    /\ Tracked1
    /\ ret.outcome = "history_write"
    /\ history_file = Corrupt
    /\ Len(known_faces) = 1
    /\ known_faces[1].seen_count = 2
    /\ ret.tracking.tracked_faces = 1
    /\ ret.tracking.recognized_faces = 1
    /\ Len(analysis_history[ret.face_id]) = 2

(* The store as get_face_analysis_summary found it *)
StoreNow ==
    [known_faces |-> known_faces, analysis_history |-> analysis_history,
     next_face_id |-> next_face_id]

(* C16: get_face_analysis_summary is a read-only query: after the call the
   identities, the histories and the id counter are what they were before it,
   and a second call for the same id straight after the first returns the
   same result. *)
C16_SummaryIsReadOnly ==
    ret.op = "summary" =>
       /\ ret.before = StoreNow
       /\ ret.prior # NoCall => ret.result = ret.prior.result

C16_Witness ==
    /\ ret.op = "summary"
    /\ ret.prior # NoCall
    /\ "urgency" \in DOMAIN ret.result
    /\ ret.result.total_analyses >= 2

SummaryFields ==
    {"total_analyses", "positive_analyses", "consistency_rate", "recommendation",
     "urgency"}

(* C17 as stated: for every identity known to the store, one with no history
   entry included, the summary holds total_analyses, positive_analyses,
   consistency_rate, recommendation and urgency. *)
C17_AsStated ==
    (ret.op = "summary" /\ ret.face_id \in FaceIds(known_faces)) =>
       SummaryFields \subseteq DOMAIN ret.result

(* C17: for every identity with at least one history entry the summary holds
   total_analyses, positive_analyses, consistency_rate, recommendation and
   urgency; for an identity with an empty history it holds total_analyses = 0,
   positive_analyses = 0 and a recommendation, and neither consistency_rate
   nor urgency. *)
C17_AllFieldsWithHistory ==
    (ret.op = "summary" /\ ret.face_id \in DOMAIN analysis_history) =>
       IF analysis_history[ret.face_id] # <<>>
       THEN SummaryFields \subseteq DOMAIN ret.result
       ELSE /\ SummaryFields \cap DOMAIN ret.result =
                  {"total_analyses", "positive_analyses", "recommendation"}
            /\ ret.result.total_analyses = 0
            /\ ret.result.positive_analyses = 0

C17_Witness ==
    /\ ret.op = "summary"
    /\ ret.face_id \in DOMAIN analysis_history
    /\ Len(analysis_history[ret.face_id]) = 1
    /\ ret.result.urgency = "urgent"

(* the rank of a summary in the list: immediate, urgent, soon, routine; a
   summary without urgency, that of an identity without history, counts as
   routine *)
ListRank(summary) ==
    IF "urgency" \notin DOMAIN summary THEN 4
    ELSE CHOOSE n \in 1..4 :
            summary.urgency = <<"immediate", "urgent", "soon", "routine">>[n]

(* C18: in the list get_all_tracked_faces returns no summary is followed by
   one of a more urgent rank (immediate before urgent before soon before
   routine), and of two neighbours of equal rank the first has at least as
   many positive analyses. *)
C18_ListOrdered ==
    ret.op = "list" =>
       \A i \in 1..(Len(ret.result) - 1) :
          \/ ListRank(ret.result[i]) < ListRank(ret.result[i + 1])
          \/ /\ ListRank(ret.result[i]) = ListRank(ret.result[i + 1])
             /\ ret.result[i].positive_analyses >= ret.result[i + 1].positive_analyses

(* two identities of equal urgency listed against the order of the dict *)
C18_Witness ==
    /\ ret.op = "list"
    /\ Len(ret.result) = 2
    /\ ret.result[1].face_id = ChildId(2)
    /\ ListRank(ret.result[1]) = ListRank(ret.result[2])
    /\ ret.result[1].positive_analyses > ret.result[2].positive_analyses

(* C19: an identity stays in the store until reset_all_data(confirm=True):
   no call of resolve, record, adjust, summary, save or
   reset_all_data(confirm=False) takes an id out of the identities, and an
   unconfirmed reset returns False and leaves identities, histories and id
   counter as they were. *)
C19_OnlyConfirmedResetRemoves ==
    [][/\ \/ FaceIds(known_faces) \subseteq FaceIds(known_faces')
          \/ ret'.op = "reset" /\ ret'.confirm
       /\ (ret'.op = "reset" /\ ~ret'.confirm) =>
             /\ ret'.result = FALSE
             /\ UNCHANGED <<known_faces, analysis_history, next_face_id>>]_vars

C19_Witness ==
    /\ ret.op = "reset"
    /\ ~ret.confirm
    /\ Len(known_faces) = 2
    /\ \E id \in DOMAIN analysis_history : analysis_history[id] # <<>>

(* the squared distances below 0.4 *)
Near(a, b) == SqDist(a, b) < 16

(* C20: _find_or_create_face returns an existing identity, is_new false,
   exactly when some stored prototype is at a distance strictly below 0.4 of
   the descriptor, and the id returned is then that of a prototype no other
   is nearer than; otherwise it creates exactly one new identity and returns
   is_new true. *)
C20_MatchIffWithinThreshold ==
    [][ret'.op = "resolve" =>
          IF \E i \in 1..Len(known_faces) : Near(ret'.arg, known_faces[i].encoding)
          THEN /\ ~ret'.is_new
               /\ \E i \in 1..Len(known_faces) :
                     /\ known_faces[i].id = ret'.face_id
                     /\ \A j \in 1..Len(known_faces) :
                           SqDist(ret'.arg, known_faces[i].encoding)
                              <= SqDist(ret'.arg, known_faces[j].encoding)
               /\ FaceIds(known_faces') = FaceIds(known_faces)
               /\ Len(known_faces') = Len(known_faces)
          ELSE /\ ret'.is_new
               /\ ret'.face_id \notin FaceIds(known_faces)
               /\ FaceIds(known_faces') = FaceIds(known_faces) \cup {ret'.face_id}
               /\ Len(known_faces') = Len(known_faces) + 1]_vars

(* a descriptor within 0.4 of two identities, returned as the nearer one,
   which is not the first *)
C20_Witness ==
    /\ ret.op = "resolve"
    /\ ~ret.is_new
    /\ ret.face_id = ChildId(2)
    /\ Len(known_faces) = 2
    /\ Near(ret.arg, known_faces[1].encoding)

(* the record of an identity but for the two fields a match may write *)
FixedPart(face) == [id |-> face.id, encoding |-> face.encoding, first_seen |-> face.first_seen]

(* C21: a successful match adds exactly 1 to seen_count, which is at least 1,
   and may write last_seen of the matched identity; its encoding and
   first_seen, the records of all other identities, the histories and the id
   counter stay as they were.  No step changes the encoding or first_seen of
   an identity that is in the store before and after it. *)
C21_MatchWritesOnlySeen ==
    [][/\ (ret'.op = "resolve" /\ ~ret'.is_new) =>
             /\ Len(known_faces') = Len(known_faces)
             /\ analysis_history' = analysis_history
             /\ next_face_id' = next_face_id
             /\ \A i \in 1..Len(known_faces) :
                   /\ FixedPart(known_faces'[i]) = FixedPart(known_faces[i])
                   /\ known_faces[i].seen_count >= 1
                   /\ IF known_faces[i].id = ret'.face_id
                      THEN known_faces'[i].seen_count = known_faces[i].seen_count + 1
                      ELSE known_faces'[i] = known_faces[i]
       /\ \A i \in 1..Len(known_faces), j \in 1..Len(known_faces') :
             known_faces[i].id = known_faces'[j].id =>
                FixedPart(known_faces'[j]) = FixedPart(known_faces[i])]_vars

(* a match on a descriptor that is not the stored one, next to another
   identity *)
C21_Witness ==
    /\ ret.op = "resolve"
    /\ ~ret.is_new
    /\ Len(known_faces) = 2
    /\ \E i \in 1..2 :
          /\ known_faces[i].id = ret.face_id
          /\ known_faces[i].encoding # ret.arg
          /\ known_faces[i].seen_count = 2

(* the entries of the adjusted history inside the 30-day window *)
WindowEntries == SelectSeq(AdjustedHistory, InWindow)

(* a rule's contribution when its condition holds *)
When(cond, af, why) == IF cond THEN <<[af |-> af, why |-> why]>> ELSE <<>>

(* the rules of the adjustment, each on its own, in their order: the rate is
   p / n over the window, the historical average (50 p + 20 (n - p)) / n *)
RuleContributions(f) ==
    LET n == Len(WindowEntries)
        p == PositiveCount(WindowEntries)
        c == f.confidence
        d == f.leukocoria_detected
        sum == 50 * p + 20 * (n - p)
        last3 == PositiveCount(LastN(WindowEntries, 3))
    IN  When(10 * p > 3 * n /\ d, 15, "consistent_with_positive_history")
        \o When(10 * p < 2 * n /\ d /\ c > 6000, 10, "new_concerning_finding")
        \o When(2 * p > n /\ ~d /\ c < 4000, 20, "possible_false_negative")
        \o When(2 * p > n /\ ~d /\ c >= 4000, 5, "positive_history_warrants_caution")
        \o When(c * n - 100 * sum > 3000 * n, 5, "higher_than_historical_average")
        \o When(100 * sum - c * n > 3000 * n, -5, "lower_than_historical_average")
        \o When(n >= 3 /\ last3 >= 2 /\ d, 10, "consistent_with_recent_trend")
        \o When(n >= 3 /\ last3 >= 2 /\ ~d, 15, "inconsistent_with_recent_trend")

RECURSIVE SumOf(_)
SumOf(contributions) ==
    IF contributions = <<>> THEN 0
    ELSE contributions[1].af + SumOf(Tail(contributions))

(* the reasoning list but for the note of a changed detection, which is no
   rule *)
RuleReasons(out) ==
    SelectSeq(out.adjustment_reasoning, LAMBDA why : why # "detection_changed")

(* C22: for every finding and every history with at least 2 entries inside
   the 30-day window, the adjustment_factor is the sum of the contributions
   of all rules whose condition holds, each rule evaluated on its own, and
   the reasoning list has one entry per contributing rule, in rule order. *)
C22_FactorIsSumOfRules ==
    (Adjusted /\ Len(WindowEntries) >= 2) =>
       \A i \in 1..Len(ret.output) :
          /\ ret.output[i].adjustment_factor = SumOf(RuleContributions(ret.input[i]))
          /\ RuleReasons(ret.output[i]) =
                [k \in 1..Len(RuleContributions(ret.input[i])) |->
                    RuleContributions(ret.input[i])[k].why]

(* C24: the output is detected with detection_changed_by_history exactly
   when the finding was given as not detected, the new confidence is above
   50 and the adjustment_factor above 0.1; in every other case the detection
   of the output is that of the input, and a finding given as detected is
   never returned as not detected. *)
C24_FlipOnlyAboveThresholds ==
    Adjusted =>
       \A i \in 1..Len(ret.output) :
          LET in == ret.input[i]
              out == ret.output[i]
              flip == /\ ~in.leukocoria_detected
                      /\ out.confidence > 5000
                      /\ out.adjustment_factor > 10
          IN  /\ out.detection_changed_by_history = flip
              /\ out.leukocoria_detected = (in.leukocoria_detected \/ flip)

(* a finding not detected at 39 % returned as detected *)
C24_Witness ==
    /\ Adjusted
    /\ Len(ret.output) = 1
    /\ ~ret.input[1].leukocoria_detected
    /\ ret.input[1].confidence = 3900
    /\ ret.output[1].leukocoria_detected
    /\ ret.output[1].detection_changed_by_history

(* the risk table for a detected finding whose confidence was adjusted *)
DetectedRisk(c) ==
    IF c >= 7500 THEN <<"high", "immediate">>
    ELSE IF c >= 5500 THEN <<"medium", "urgent">>
    ELSE IF c >= 4500 THEN <<"medium", "soon">>
    ELSE <<"low", "routine">>

(* |new - original| > 10: the risk of this output was re-evaluated *)
Reevaluated(out) ==
    /\ out.confidence_adjusted
    /\ Abs(out.confidence - out.original_confidence) > 1000

(* C27: every finding returned as detected whose risk was re-evaluated has
   the risk_level and the urgency of the risk table for a detected finding
   at its final confidence; a finding changed to detected by the history
   never keeps risk_level low at a confidence of 45 or more. *)
C27_DetectedRiskFollowsTable ==
    Adjusted =>
       \A i \in 1..Len(ret.output) :
          (ret.output[i].leukocoria_detected /\ Reevaluated(ret.output[i])) =>
             <<ret.output[i].risk_level, ret.output[i].urgency>> =
                DetectedRisk(ret.output[i].confidence)

HistoryRuleReasons ==
    {"consistent_with_positive_history", "new_concerning_finding",
     "possible_false_negative", "positive_history_warrants_caution"}

(* C28: the adjustment_factor lies in [-0.05, +0.35]; it is negative only
   when the one contributing rule is that of a confidence lower than the
   historical average; at most one of the first three rules contributes to
   a finding. *)
C28_FactorInRange ==
    Adjusted =>
       \A i \in 1..Len(ret.output) :
          LET out == ret.output[i]
          IN  /\ out.adjustment_factor >= -5
              /\ out.adjustment_factor <= 35
              /\ out.adjustment_factor < 0 =>
                    out.adjustment_reasoning = <<"lower_than_historical_average">>
              /\ Cardinality({k \in 1..Len(out.adjustment_reasoning) :
                                 out.adjustment_reasoning[k] \in HistoryRuleReasons}) <= 1

(* the largest factor: the false-negative rule and the trend rule together *)
C28_Witness ==
    /\ Adjusted
    /\ Len(ret.output) = 1
    /\ ret.output[1].adjustment_factor = 35
    /\ Len(ret.output[1].adjustment_reasoning) = 3

(* the rows of the risk table for a detected finding *)
RiskTable(c, adjusted) ==
    IF c >= 8500 \/ (c >= 7500 /\ adjusted) THEN <<"high", "immediate">>
    ELSE IF c >= 6500 \/ (c >= 5500 /\ adjusted) THEN <<"medium", "urgent">>
    ELSE IF c >= 4500 THEN <<"medium", "soon">>
    ELSE <<"low", "routine">>

RiskOf(r) == <<r.risk_level, r.urgency>>

(* C23 as stated: for a detected finding the function sets the risk and the
   urgency of the table; for a finding not detected it sets (low, soon) when
   the confidence was adjusted and is above 30, and in every other case
   leaves risk_level and urgency as they were. *)
C23_AsStated ==
    ret.op = "reevaluate" =>
       RiskOf(ret.output) =
          IF ret.input.leukocoria_detected
          THEN RiskTable(ret.input.confidence, ret.input.confidence_adjusted)
          ELSE IF ret.input.confidence_adjusted /\ ret.input.confidence > 3000
          THEN <<"low", "soon">>
          ELSE RiskOf(ret.input)

(* C23: for a detected finding the function sets the risk and the urgency of
   the table; for a finding not detected it sets (low, soon) when the
   confidence was adjusted and is above 30; when the confidence was adjusted,
   is 30 or less and the adjustment_factor is above 0.1 it sets the urgency
   to soon and leaves risk_level; in every other case it leaves risk_level
   and urgency as they were. *)
C23_RiskTableWithMonitoring ==
    ret.op = "reevaluate" =>
       RiskOf(ret.output) =
          IF ret.input.leukocoria_detected
          THEN RiskTable(ret.input.confidence, ret.input.confidence_adjusted)
          ELSE IF ret.input.confidence_adjusted /\ ret.input.confidence > 3000
          THEN <<"low", "soon">>
          ELSE IF ret.input.confidence_adjusted /\ ret.input.adjustment_factor > 10
          THEN <<ret.input.risk_level, "soon">>
          ELSE RiskOf(ret.input)

(* a finding not detected at 30 %, adjusted by +0.20, given as medium risk *)
C23_Witness ==
    /\ ret.op = "reevaluate"
    /\ ~ret.input.leukocoria_detected
    /\ ret.input.confidence_adjusted
    /\ ret.input.confidence = 3000
    /\ ret.input.adjustment_factor = 20
    /\ RiskOf(ret.input) = <<"medium", "soon">>
    /\ RiskOf(ret.output) = <<"medium", "soon">>

(* the history of the analysed identity as process_faces left it, before
   add_analysis_result *)
HistoryBeforeRecord ==
    IF ret.face_id \in DOMAIN ret.after_process_faces.analysis_history
    THEN ret.after_process_faces.analysis_history[ret.face_id]
    ELSE <<>>

(* C25: the history adjust_confidence_with_history reads for an analysis
   holds only the entries recorded by earlier analyses, not the entry of the
   analysis being adjusted. *)
C25_AdjustReadsEarlierEntries ==
    (ret.op = "analyze" /\ ret.recorded) => ret.consulted = HistoryBeforeRecord

(* C26: once more than max_history_per_face entries were appended to the
   history of an identity, the history is the last max_history_per_face of
   them, each as it was appended and in the order of the appends. *)
C26_HistoryIsLastAppended ==
    \A id \in DOMAIN analysis_history :
       Len(appended[id]) > max_history_per_face =>
          /\ Len(analysis_history[id]) = max_history_per_face
          /\ \A i \in 1..max_history_per_face :
                analysis_history[id][i] =
                   appended[id][Len(appended[id]) - max_history_per_face + i]

(* twelve appends, the two evicted entries positive, the entry now first
   negative *)
C26_Witness ==
    \E id \in DOMAIN analysis_history :
       /\ ret.op = "record"
       /\ Len(appended[id]) = max_history_per_face + 2
       /\ appended[id][1].has_positive_findings
       /\ appended[id][2].has_positive_findings
       /\ ~analysis_history[id][1].has_positive_findings
       /\ analysis_history[id][max_history_per_face].has_positive_findings

(* an analysis thread that was launched and has not yet cleared the flag *)
Running(t) == pc[t] \in {"launched", "detecting", "analysing", "finally"}

(* C29: at most one analysis thread runs at any time: no second thread is
   started between the launch of a first one and the moment it clears
   self.processing. *)
C29_OneAnalysisThread == Cardinality({t \in DOMAIN pc : Running(t)}) <= 1

(* C30: a session registered as running by start_analysis has the status
   completed or error once its task has ended, whether the task returned or
   raised, so that get_analysis_results does not report running for a task
   that is over. *)
C30_EndedTaskNotRunning ==
    \A s \in DOMAIN analysis_sessions :
       pc[s] = "finished" => analysis_sessions[s].status \in {"completed", "error"}

====
